---- MODULE Spec2Model ----
(***************************************************************************)
(* The merge / export / event-loop macros of the PYTHIA dijet analysis:    *)
(*   mergetuple  (src/mergetuple.C)  concatenates the dijetNtuple tables,  *)
(*   mergemacro  (src/mergemacro.C)  sums the same-named histograms,       *)
(*   drawTuple   (src/drawTuple.C)   writes the merged table as CSV,       *)
(*   main        (src/pythia.C)      the event loop that fills a run file. *)
(* Each macro is one specification over the shared variables; the ones a   *)
(* macro does not use keep their idle values.                              *)
(*                                                                         *)
(* A float is represented by the integer number of eighths it holds        *)
(* (8 stands for 1.0, -12 for -1.5): eighths are exact in binary floating  *)
(* point, so casts and fixed-point rendering are computed exactly.         *)
(***************************************************************************)
EXTENDS Integers, Sequences, FiniteSets, TLC

VARIABLES
    macro,         \* the macro that is running
    nFiles,        \* end - start + 1: the length of the source range
    files,         \* files[i]: the content of AnalysisResults<i>.root
    pc,            \* position of the running macro
    i,             \* loop index over the sources / over the rows (drawTuple)
    j,             \* mergetuple: row index inside the current source
    nentries,      \* GetEntries() of the table being read
    mergedNtuple,  \* mergetuple: the in-memory merged table
    mergedFile,    \* content of merged_tuple.root (<<>> until written)
    written,       \* whether mergedNtuple->Write() has happened
    openFiles,     \* indices of the sources that are currently open
    cerr,          \* diagnostics the macro has written to std::cerr
    firstFile,     \* mergemacro: "unset", "null", "open" or "closed"
    keyIdx,        \* mergemacro: position of TIter next in source 0's key list
    mergedHist,    \* mergemacro: the accumulator of the current histogram
    outputFile,    \* mergemacro: histograms written to merged_AnalysisResults.root
    outputClosed,  \* mergemacro: whether outputFile.Close() has happened
    csvFile,       \* drawTuple: the lines of dijet_data.csv
    nEvent,        \* pythia: Main:numberOfEvents
    ievt,          \* pythia: event loop counter
    hnevent,       \* pythia: entries of hnevent
    hDijetMass,    \* pythia: entries of hDijetMass
    hPartonicX,    \* pythia: entries of hPartonicX
    dijetNtuple,   \* pythia: the rows filled, as <<eventNum, picked jet index>>
    lastFill       \* pythia: rows appended by the latest iteration

vars == <<macro, nFiles, files, pc, i, j, nentries, mergedNtuple, mergedFile, written,
          openFiles, cerr, firstFile, keyIdx, mergedHist, outputFile,
          outputClosed, csvFile, nEvent, ievt, hnevent, hDijetMass,
          hPartonicX, dijetNtuple, lastFill>>

tupleVars == <<j, nentries, mergedNtuple, mergedFile, written>>
macroVars == <<firstFile, keyIdx, mergedHist, outputFile, outputClosed>>
simVars   == <<nEvent, ievt, hnevent, hDijetMass, hPartonicX, dijetNtuple, lastFill>>

\* ------------------------------------------------------------------ bounds
MaxSources == 3
MaxRows == 2
MaxEvents == 2
MaxJets == 3

\* --------------------------------------------------------------- the data
\* A row of the 10-field schema
\* eventNum:dijetMass:leadingJetPt:subleadingJetPt:deltaPhi:deltaEta:x1:x2:parton1Id:parton2Id
\* in eighths.  RowA is event 0 with partons 21 and -1, RowB is event 1,
\* RowC holds fractional values in the three integer-rendered fields
\* (7.5, -1.5, 1.625).
RowA == <<0, 987, 401, 242, 25, 1, 1, 4, 168, -8>>
RowB == <<8, 640, 330, 203, 23, -3, 2, 5, 16, 168>>
RowC == <<60, 321, 180, 161, 27, 0, 3, 3, -12, 13>>
Rows == {RowA, RowB, RowC}

RECURSIVE SeqsUpTo(_, _)
SeqsUpTo(S, n) ==
    IF n = 0 THEN {<<>>}
    ELSE LET shorter == SeqsUpTo(S, n - 1)
         IN  shorter \cup {Append(s, x) : s \in {t \in shorter : Len(t) = n - 1}, x \in S}

Null == [name |-> "", cls |-> "", ok |-> FALSE, bins |-> <<>>, n |-> 0, rows |-> <<>>]

\* An entry (TKey plus the object it stores) of a source file.  ok is
\* whether the stored object can be read back by TFile::Get.
Hist(name, cls, ok, bins, n) ==
    [name |-> name, cls |-> cls, ok |-> ok, bins |-> bins, n |-> n, rows |-> <<>>]
Ntuple(name, rows) ==
    [name |-> name, cls |-> "TNtuple", ok |-> TRUE, bins |-> <<>>, n |-> Len(rows), rows |-> rows]

Unreadable == [ok |-> FALSE, keys |-> <<>>]
Source(keys) == [ok |-> TRUE, keys |-> keys]

\* TFile::Get(name): the object stored under name, or a null pointer when
\* the file is a zombie, has no such key, or the object cannot be read.
Get(file, name) ==
    LET hits == {k \in 1..Len(file.keys) :
                    file.keys[k].name = name /\ file.keys[k].ok}
    IN  IF file.ok /\ hits # {}
        THEN file.keys[CHOOSE k \in hits : \A l \in hits : k <= l]
        ELSE Null

\* The tables a run file may hold: 0..MaxRows rows, in two flavours.
Alt(n, a, b) == [k \in 1..n |-> IF k % 2 = 1 THEN a ELSE b]
Tables == {Alt(n, RowA, RowB) : n \in 0..MaxRows} \cup {Alt(n, RowB, RowC) : n \in 0..MaxRows}

hOne == Hist("hnevent", "TH1D", TRUE, <<1, 0>>, 1)

\* The sources mergetuple is run over: a file that cannot be opened, a file
\* without the dijetNtuple table, and files holding a table.
TupleSources ==
    {Unreadable, Source(<<hOne>>)}
        \cup {Source(<<hOne, Ntuple("dijetNtuple", t)>>) : t \in Tables}

\* The values of the macros that are not running.
IdleTuple ==
    /\ j = 0 /\ nentries = 0 /\ mergedNtuple = <<>> /\ mergedFile = <<>>
    /\ written = FALSE
IdleMacro ==
    /\ firstFile = "unset" /\ keyIdx = 0 /\ mergedHist = Null
    /\ outputFile = <<>> /\ outputClosed = FALSE
IdleSim ==
    /\ nEvent = 0 /\ ievt = 0 /\ hnevent = 0 /\ hDijetMass = 0
    /\ hPartonicX = 0 /\ dijetNtuple = <<>> /\ lastFill = 0

\* A line on the error stream: kind "TFile" is ROOT's own error for a file
\* that cannot be opened, the other kinds are the macro's std::cerr lines.
Diag(kind, hist, file) == [kind |-> kind, hist |-> hist, file |-> file]

\* ============================================================ mergetuple
\* Lines 3-8: the range, RECREATE of merged_tuple.root, the empty table.
InitTuple ==
    /\ macro = "mergetuple"
    /\ nFiles \in 0..MaxSources
    /\ files \in [0..(nFiles - 1) -> TupleSources]
    /\ pc = "loop" /\ i = 0
    /\ openFiles = {} /\ cerr = <<>> /\ csvFile = <<>>
    /\ IdleTuple /\ IdleMacro /\ IdleSim

\* Line 35: mergedNtuple->Fill with the ten values GetEntry left in the
\* ten bound floats.
FillRowSwapped(row) == [row EXCEPT ![9] = row[10], ![10] = row[9]]
FillRow(row) == row

\* Line 33: the bound of the row loop.
RowLoopGuard(jj, n) == jj < n

\* Line 38: file->Close().
TM_Close(open, k) == open \ {k}

\* Lines 15-32: open source i (ROOT reports a file it cannot open), look
\* the table up, bind the branches, read the row count.
\* A zombie file or a missing table makes dijetNtuple a
\* null pointer, and SetBranchAddress through it is undefined behaviour:
\* the macro aborts there, or runs on having read no rows.
TM_OpenSource ==
    /\ macro = "mergetuple"
    /\ pc = "loop" /\ i < nFiles
    /\ LET file == files[i]
           table == Get(file, "dijetNtuple")
       IN  /\ openFiles' = IF file.ok THEN openFiles \cup {i} ELSE openFiles
           /\ cerr' = IF file.ok THEN cerr ELSE Append(cerr, Diag("TFile", "", i))
           /\ IF table # Null
              THEN /\ nentries' = Len(table.rows)
                   /\ pc' = "rows"
              ELSE /\ nentries' = 0
                   /\ pc' \in {"crashed", "rows"}
    /\ j' = 0
    /\ UNCHANGED <<macro, nFiles, files, i, mergedNtuple, mergedFile, written,
                   csvFile, macroVars, simVars>>

\* Lines 33-36: one iteration of the row loop.
TM_CopyRow ==
    /\ macro = "mergetuple"
    /\ pc = "rows" /\ RowLoopGuard(j, nentries)
    /\ mergedNtuple' =
           Append(mergedNtuple, FillRow(Get(files[i], "dijetNtuple").rows[j + 1]))
    /\ j' = j + 1
    /\ UNCHANGED <<macro, nFiles, files, pc, i, nentries, mergedFile, written,
                   openFiles, cerr, csvFile, macroVars, simVars>>

\* Line 38, and the i++ of line 14.
TM_CloseSource ==
    /\ macro = "mergetuple"
    /\ pc = "rows" /\ ~RowLoopGuard(j, nentries)
    /\ openFiles' = TM_Close(openFiles, i)
    /\ i' = i + 1
    /\ pc' = "loop"
    /\ UNCHANGED <<macro, nFiles, files, j, nentries, mergedNtuple, mergedFile,
                   written, cerr, csvFile, macroVars, simVars>>

\* Lines 41-46: after the last source, write the table and close the file.
TM_Write ==
    /\ macro = "mergetuple"
    /\ pc = "loop" /\ i >= nFiles
    /\ mergedFile' = mergedNtuple
    /\ written' = TRUE
    /\ pc' = "done"
    /\ UNCHANGED <<macro, nFiles, files, i, j, nentries, mergedNtuple, openFiles,
                   cerr, csvFile, macroVars, simVars>>

NextTuple == TM_OpenSource \/ TM_CopyRow \/ TM_CloseSource \/ TM_Write

SpecTuple == InitTuple /\ [][NextTuple]_vars

\* ============================================================ mergemacro
\* The run files mergemacro is run over.  Their keys come in different
\* orders; NoMass lacks hDijetMass, BadMass holds a hDijetMass that cannot
\* be read back, Extra holds all three histogram kinds, OnlyTuple holds no
\* histogram.  hDijetMass is filled with weights, so its bin contents are
\* not its entry count.
tupleKey == Ntuple("dijetNtuple", <<RowA>>)
Full1 == Source(<<Hist("hnevent", "TH1D", TRUE, <<2, 0>>, 2),
                  Hist("hDijetMass", "TH1D", TRUE, <<3, 1>>, 2), tupleKey>>)
Full2 == Source(<<tupleKey, Hist("hDijetMass", "TH1D", TRUE, <<1, 4>>, 3),
                  Hist("hnevent", "TH1D", TRUE, <<3, 0>>, 3)>>)
NoMass == Source(<<Hist("hnevent", "TH1D", TRUE, <<1, 0>>, 1), tupleKey>>)
BadMass == Source(<<Hist("hDijetMass", "TH1D", FALSE, <<0, 0>>, 0),
                    Hist("hnevent", "TH1D", TRUE, <<4, 0>>, 4)>>)
Extra == Source(<<Hist("hPt", "TH1F", TRUE, <<5, 2>>, 7),
                  Hist("hPartonicX", "TH2D", TRUE, <<0, 6>>, 6),
                  Hist("hDijetMass", "TH1D", TRUE, <<2, 2>>, 1)>>)
OnlyTuple == Source(<<tupleKey>>)
MacroSources == {Unreadable, Full1, Full2, NoMass, BadMass, Extra, OnlyTuple}

\* Lines 3-11: the range and RECREATE of merged_AnalysisResults.root.
InitMacro ==
    /\ macro = "mergemacro"
    /\ nFiles \in 0..MaxSources
    /\ files \in [0..(nFiles - 1) -> MacroSources]
    /\ pc = "start" /\ i = 0
    /\ openFiles = {} /\ cerr = <<>> /\ csvFile = <<>>
    /\ IdleTuple /\ IdleMacro /\ IdleSim

\* Line 25: the kinds the key loop does not skip.
IsHistClassNoFilter(cls) == TRUE
IsHistClass(cls) == cls \in {"TH1F", "TH1D", "TH2D"}

\* Line 60: TH1::Add, the bin-wise sum of contents and of the entry count.
HistAdd(acc, h) ==
    [acc EXCEPT !.bins = [b \in DOMAIN acc.bins |-> acc.bins[b] + h.bins[b]],
                !.n = acc.n + h.n]

\* Line 44: the first source the inner loop visits.
FirstOther == 1

\* The key list TIter next walks: source 0's keys, none when the list was
\* taken through a null firstFile and the macro ran on.
FirstKeys == IF firstFile = "open" THEN files[0].keys ELSE <<>>

\* Line 14: whether TFile::Open(fileNames[0]) yields an open file.
FirstOpens == IF nFiles > 0 THEN files[0].ok ELSE FALSE

\* Lines 14-17: open fileNames[0]; a failed open is reported by ROOT and
\* by the macro, and the macro
\* goes on.  With an empty range fileNames[0] reads past the end of an
\* empty vector, undefined behaviour: the macro aborts, or the garbage name
\* cannot be opened.
MM_OpenFirst ==
    /\ macro = "mergemacro"
    /\ pc = "start"
    /\ \/ /\ FirstOpens
          /\ firstFile' = "open"
          /\ openFiles' = openFiles \cup {0}
          /\ cerr' = cerr
          /\ pc' = "keys"
       \/ /\ ~FirstOpens
          /\ firstFile' = "null"
          /\ openFiles' = openFiles
          /\ cerr' = cerr \o <<Diag("TFile", "", 0), Diag("open", "", 0)>>
          /\ pc' = "keys"
       \/ /\ nFiles = 0
          /\ pc' = "crashed"
          /\ UNCHANGED <<firstFile, openFiles, cerr>>
    /\ UNCHANGED <<macro, nFiles, files, i, tupleVars, keyIdx, mergedHist,
                   outputFile, outputClosed, csvFile, simVars>>

\* Line 20: firstFile->GetListOfKeys().  Through a null firstFile this is
\* undefined behaviour: the macro aborts, or runs on with no keys.
MM_ListKeys ==
    /\ macro = "mergemacro"
    /\ pc = "keys"
    /\ keyIdx' = 1
    /\ pc' \in IF firstFile = "open" THEN {"keyloop"} ELSE {"keyloop", "crashed"}
    /\ UNCHANGED <<macro, nFiles, files, i, tupleVars, openFiles, cerr,
                   firstFile, mergedHist, outputFile, outputClosed, csvFile,
                   simVars>>

\* Lines 22-41: the next key of source 0: skipped when it is no histogram,
\* skipped with a diagnostic when the histogram cannot be loaded, else
\* taken as the accumulator.
MM_NextKey ==
    /\ macro = "mergemacro"
    /\ pc = "keyloop" /\ keyIdx <= Len(FirstKeys)
    /\ LET key == FirstKeys[keyIdx]
           loaded == Get(files[0], key.name)
       IN  IF ~IsHistClass(key.cls)
           THEN /\ keyIdx' = keyIdx + 1
                /\ UNCHANGED <<pc, i, mergedHist, cerr>>
           ELSE IF loaded = Null
           THEN /\ cerr' = Append(cerr, Diag("load", key.name, 0))
                /\ keyIdx' = keyIdx + 1
                /\ UNCHANGED <<pc, i, mergedHist>>
           ELSE /\ mergedHist' = loaded
                /\ i' = FirstOther
                /\ pc' = "fileloop"
                /\ UNCHANGED <<keyIdx, cerr>>
    /\ UNCHANGED <<macro, nFiles, files, tupleVars, openFiles, firstFile,
                   outputFile, outputClosed, csvFile, simVars>>

\* Lines 44-49: open source i; a failed open is logged and the loop goes
\* on to the next source.
MM_OpenFile ==
    /\ macro = "mergemacro"
    /\ pc = "fileloop" /\ i < nFiles
    /\ IF files[i].ok
       THEN /\ openFiles' = openFiles \cup {i}
            /\ pc' = "opened"
            /\ UNCHANGED <<i, cerr>>
       ELSE /\ cerr' = cerr \o <<Diag("TFile", "", i), Diag("open", "", i)>>
            /\ i' = i + 1
            /\ UNCHANGED <<pc, openFiles>>
    /\ UNCHANGED <<macro, nFiles, files, tupleVars, macroVars, csvFile, simVars>>

\* Line 64: file->Close().
MM_CloseLeak(open, k) == open
MM_Close(open, k) == open \ {k}

\* Lines 51-64: look the histogram up in source i, add it or log that it
\* is not there, close source i.
MM_AddHist ==
    /\ macro = "mergemacro"
    /\ pc = "opened"
    /\ LET histToAdd == Get(files[i], mergedHist.name)
       IN  IF histToAdd # Null
           THEN /\ mergedHist' = HistAdd(mergedHist, histToAdd)
                /\ cerr' = cerr
           ELSE /\ mergedHist' = mergedHist
                /\ cerr' = Append(cerr, Diag("notfound", mergedHist.name, i))
    /\ openFiles' = MM_Close(openFiles, i)
    /\ i' = i + 1
    /\ pc' = "fileloop"
    /\ UNCHANGED <<macro, nFiles, files, tupleVars, firstFile, keyIdx,
                   outputFile, outputClosed, csvFile, simVars>>

\* Lines 67-69: after the last source, write the accumulator under its name.
MM_WriteHist ==
    /\ macro = "mergemacro"
    /\ pc = "fileloop" /\ i >= nFiles
    /\ outputFile' = Append(outputFile, mergedHist)
    /\ keyIdx' = keyIdx + 1
    /\ pc' = "keyloop"
    /\ UNCHANGED <<macro, nFiles, files, i, tupleVars, openFiles, cerr,
                   firstFile, mergedHist, outputClosed, csvFile, simVars>>

\* Lines 72-76: after the last key, close source 0 and the output.  Close
\* through a null firstFile is undefined behaviour: the macro aborts, or
\* runs on.
MM_Finish ==
    /\ macro = "mergemacro"
    /\ pc = "keyloop" /\ keyIdx > Len(FirstKeys)
    /\ IF firstFile = "open"
       THEN /\ firstFile' = "closed"
            /\ openFiles' = openFiles \ {0}
            /\ outputClosed' = TRUE
            /\ pc' = "done"
       ELSE /\ firstFile' = firstFile
            /\ openFiles' = openFiles
            /\ \/ outputClosed' = TRUE /\ pc' = "done"
               \/ outputClosed' = FALSE /\ pc' = "crashed"
    /\ UNCHANGED <<macro, nFiles, files, i, tupleVars, cerr, keyIdx,
                   mergedHist, outputFile, csvFile, simVars>>

NextMacro ==
    \/ MM_OpenFirst \/ MM_ListKeys \/ MM_NextKey \/ MM_OpenFile
    \/ MM_AddHist \/ MM_WriteHist \/ MM_Finish

SpecMacro == InitMacro /\ [][NextMacro]_vars

\* Both mergers, each run over its own sources.
InitMergers == InitTuple \/ InitMacro
NextMergers == NextTuple \/ NextMacro
SpecMergers == InitMergers /\ [][NextMergers]_vars

\* ============================================================= drawTuple
\* merged_tuple.root as drawTuple finds it: with the table mergedNtuple
\* (written) or without it.
DrawTables == SeqsUpTo(Rows, MaxRows + 1)

InitDraw ==
    /\ macro = "drawTuple"
    /\ nFiles = 0 /\ files = <<>>
    /\ mergedFile \in DrawTables
    /\ written \in BOOLEAN
    /\ written = FALSE => mergedFile = <<>>
    /\ pc = "start" /\ i = 0
    /\ j = 0 /\ nentries = 0 /\ mergedNtuple = <<>>
    /\ openFiles = {} /\ cerr = <<>> /\ csvFile = <<>>
    /\ IdleMacro /\ IdleSim

\* Line 25.
Header == "Event,Mass,LeadPt,SubleadPt,DeltaPhi,DeltaEta,x1,x2,Parton1,Parton2"

\* Lines 31, 39, 40: the cast (int) of a float, which drops the fraction.
ToIntFloor(v) == v \div 8
ToInt(v) == IF v >= 0 THEN v \div 8 ELSE -((-v) \div 8)

\* Lines 30, 32-38: a float under fixed << setprecision(2): the sign, the
\* whole part and two decimals, the exact value rounded to the nearest
\* hundredth and to the even one on a tie.
Fixed2(v) ==
    LET a == IF v >= 0 THEN v ELSE -v
        q == (a * 25) \div 2
        h == IF (a * 25) % 2 = 0 \/ q % 2 = 0 THEN q ELSE q + 1
    IN  [neg |-> v < 0, whole |-> h \div 100, frac |-> h % 100]

IntField(v) == [int |-> ToInt(v)]

\* Lines 31-40: one line of the file, the ten fields between the commas.
CsvLine(row) ==
    <<IntField(row[1]), Fixed2(row[2]), Fixed2(row[3]), Fixed2(row[4]),
      Fixed2(row[5]), Fixed2(row[6]), Fixed2(row[7]), Fixed2(row[8]),
      IntField(row[9]), IntField(row[10])>>

\* Lines 3-25: open merged_tuple.root, look mergedNtuple up, bind the
\* branches, read the row count, create the CSV file and write the header.
\* Without the table the branches are bound through a null pointer,
\* undefined behaviour: the macro aborts, or runs on having read no rows.
DT_Open ==
    /\ macro = "drawTuple"
    /\ pc = "start"
    /\ IF written
       THEN /\ nentries' = Len(mergedFile)
            /\ csvFile' = <<Header>>
            /\ pc' = "lines"
       ELSE /\ nentries' = 0
            /\ \/ csvFile' = <<Header>> /\ pc' = "lines"
               \/ csvFile' = csvFile /\ pc' = "crashed"
    /\ UNCHANGED <<macro, nFiles, files, i, j, mergedNtuple, mergedFile,
                   written, openFiles, cerr, macroVars, simVars>>

\* Lines 28-41: one iteration of the row loop.
DT_WriteRow ==
    /\ macro = "drawTuple"
    /\ pc = "lines" /\ i < nentries
    /\ csvFile' = Append(csvFile, CsvLine(mergedFile[i + 1]))
    /\ i' = i + 1
    /\ UNCHANGED <<macro, nFiles, files, pc, j, nentries, mergedNtuple,
                   mergedFile, written, openFiles, cerr, macroVars, simVars>>

\* Lines 43-46: close the CSV file and merged_tuple.root.
DT_Close ==
    /\ macro = "drawTuple"
    /\ pc = "lines" /\ i >= nentries
    /\ pc' = "done"
    /\ UNCHANGED <<macro, nFiles, files, i, j, nentries, mergedNtuple,
                   mergedFile, written, openFiles, cerr, csvFile, macroVars,
                   simVars>>

NextDraw == DT_Open \/ DT_WriteRow \/ DT_Close

SpecDraw == InitDraw /\ [][NextDraw]_vars

\* ================================================== pythia: the event loop
\* Angles are in eighths of a turn, so HalfTurn is M_PI and HalfTurn \div 2
\* is M_PI/2.
HalfTurn == 4
PhiVals == {0, 3, 6}

\* The width of a float's significand: ints up to 2^24 are exact.
FloatMantissaBits == 24
Exact == 2 ^ FloatMantissaBits

\* jets_eta_cut of one event (lines 105-117): the jets above the pt cut and
\* inside the eta cut, in the descending pt order sorted_by_pt gives.
JetList(phis) == [k \in 1..Len(phis) |-> [pt |-> 8 * (30 - k), phi |-> phis[k]]]
JetLists == {JetList(phis) : phis \in SeqsUpTo(PhiVals, MaxJets)}

\* A run of Main:numberOfEvents events is modelled event by event when it
\* has at most MaxEvents events; a long run is modelled as Exact events
\* that select no dijet, followed by up to MaxEvents events modelled one by
\* one.
InitSim ==
    /\ macro = "pythia"
    /\ nEvent \in (0..MaxEvents) \cup {Exact + e : e \in 1..MaxEvents}
    /\ ievt = 0 /\ hnevent = 0 /\ hDijetMass = 0 /\ hPartonicX = 0
    /\ dijetNtuple = <<>> /\ lastFill = 0
    /\ nFiles = 0 /\ files = <<>>
    /\ pc = "events" /\ i = 0
    /\ openFiles = {} /\ cerr = <<>> /\ csvFile = <<>>
    /\ IdleTuple /\ IdleMacro

Abs(x) == IF x >= 0 THEN x ELSE -x

\* Lines 127-131: the back-to-back condition fabs(dphi - M_PI) < M_PI/2,
\* dphi = fabs(leading.phi - subleading.phi).
BackToBack(lead, sub) == Abs(Abs(lead.phi - sub.phi) - HalfTurn) < HalfTurn \div 2

\* Lines 123-160: the search for (auto i = 1; i < size && !found_pair; i++):
\* the position of the first jet after the leading one that is back to
\* back with it, 0 when there is none.  Positions count from 1, so the
\* leading jet is jets[1].
RECURSIVE FindPair(_, _)
FindPair(jets, k) ==
    IF k > Len(jets) THEN 0
    ELSE IF BackToBack(jets[1], jets[k]) THEN k
    ELSE FindPair(jets, k + 1)

\* Line 145: (float)ievt, the nearest float, the even one on a tie.
RECURSIVE UlpOf(_, _)
UlpOf(n, u) == IF n < Exact * u THEN u ELSE UlpOf(n, 2 * u)
ToFloat(n) ==
    LET u == UlpOf(n, 1)
        q == n \div u
        r == n % u
    IN  IF 2 * r < u THEN q * u
        ELSE IF 2 * r > u THEN (q + 1) * u
        ELSE IF q % 2 = 0 THEN q * u ELSE (q + 1) * u

\* Lines 144-157: the row of a selected dijet.  jets is not a column of the
\* table: it records the event's jets_eta_cut for the properties.
DijetRow(ev, jets, k) ==
    [eventNum |-> ToFloat(ev), leadingJetPt |-> jets[1].pt,
     subleadingJetPt |-> jets[k].pt, deltaPhi |-> Abs(jets[1].phi - jets[k].phi),
     jets |-> jets]

\* Whether the loop models iteration ievt on its own.
Single == ievt < nEvent /\ (nEvent > Exact => ievt >= Exact)

\* Line 90: pythia.next() fails and the iteration is skipped.
EV_NextFails ==
    /\ macro = "pythia"
    /\ pc = "events" /\ Single
    /\ ievt' = ievt + 1
    /\ lastFill' = 0
    /\ UNCHANGED <<macro, nFiles, files, pc, i, tupleVars, openFiles, cerr,
                   macroVars, csvFile, nEvent, hnevent, hDijetMass,
                   hPartonicX, dijetNtuple>>

\* Lines 88-160: one iteration with a generated event: hnevent is filled;
\* with fewer than two jets after the cuts the iteration ends; else the
\* first back-to-back partner of the leading jet, if any, fills
\* hDijetMass, hPartonicX and one row of dijetNtuple.
EV_Event ==
    /\ macro = "pythia"
    /\ pc = "events" /\ Single
    /\ \E jets \in JetLists :
          LET k == IF Len(jets) < 2 THEN 0 ELSE FindPair(jets, 2)
          IN  /\ hnevent' = hnevent + 1
              /\ IF k # 0
                 THEN /\ hDijetMass' = hDijetMass + 1
                      /\ hPartonicX' = hPartonicX + 1
                      /\ dijetNtuple' = Append(dijetNtuple, DijetRow(ievt, jets, k))
                      /\ lastFill' = 1
                 ELSE /\ lastFill' = 0
                      /\ UNCHANGED <<hDijetMass, hPartonicX, dijetNtuple>>
    /\ ievt' = ievt + 1
    /\ UNCHANGED <<macro, nFiles, files, pc, i, tupleVars, openFiles, cerr,
                   macroVars, csvFile, nEvent>>

\* Lines 88-119, Exact times over: the first Exact iterations of a long run,
\* each with a generated event that has fewer than two jets after the cuts.
EV_UnselectedBlock ==
    /\ macro = "pythia"
    /\ pc = "events" /\ ievt = 0 /\ nEvent > Exact
    /\ ievt' = Exact
    /\ hnevent' = hnevent + Exact
    /\ lastFill' = 0
    /\ UNCHANGED <<macro, nFiles, files, pc, i, tupleVars, openFiles, cerr,
                   macroVars, csvFile, nEvent, hDijetMass, hPartonicX,
                   dijetNtuple>>

\* Lines 161-170: after the last event, write the histograms and the table.
EV_Write ==
    /\ macro = "pythia"
    /\ pc = "events" /\ ievt >= nEvent
    /\ pc' = "done"
    /\ UNCHANGED <<macro, nFiles, files, i, tupleVars, openFiles, cerr,
                   macroVars, csvFile, simVars>>

NextSim == EV_NextFails \/ EV_Event \/ EV_UnselectedBlock \/ EV_Write

SpecSim == InitSim /\ [][NextSim]_vars

\* ================================================== properties: mergers
Indices == 0..(nFiles - 1)

TableOf(k) == Get(files[k], "dijetNtuple")
AllTablesReadable == \A k \in Indices : TableOf(k) # Null
AllReadable == \A k \in Indices : files[k].ok

\* The rows of sources 0..k-1, source after source.
RECURSIVE ConcatTables(_)
ConcatTables(k) ==
    IF k = 0 THEN <<>> ELSE ConcatTables(k - 1) \o TableOf(k - 1).rows

RECURSIVE RowCount(_)
RowCount(k) == IF k = 0 THEN 0 ELSE RowCount(k - 1) + Len(TableOf(k - 1).rows)

\* C1: over readable sources with tables of r0..r(N-1) rows, mergetuple
\* writes exactly r0+...+r(N-1) rows: the rows of source 0, then those of
\* source 1, ..., each source's rows in their stored order and every row
\* with its ten stored values; while source i is being read the merged
\* table is that concatenation up to row j of source i.
C1_TupleConcat ==
    (macro = "mergetuple" /\ AllTablesReadable) =>
        /\ pc = "rows" =>
              mergedNtuple = ConcatTables(i) \o SubSeq(TableOf(i).rows, 1, j)
        /\ pc = "done" =>
              /\ written
              /\ mergedFile = ConcatTables(nFiles)
              /\ Len(mergedFile) = RowCount(nFiles)

C1_Witness ==
    /\ macro = "mergetuple" /\ pc = "done" /\ AllTablesReadable
    /\ nFiles >= 2
    /\ Len(TableOf(0).rows) = 2 /\ Len(TableOf(1).rows) >= 1
    /\ TableOf(0).rows # TableOf(1).rows
    /\ Len(mergedFile) >= 3

\* C4: a source that cannot be opened or has no dijetNtuple table makes
\* mergetuple end in a reported failure, with a diagnostic for that source
\* and no merged table written; the outcome is the complete merged table
\* or a reported failure.
C4_TupleFailsLoud ==
    (macro = "mergetuple" /\ pc \in {"done", "crashed"}) =>
        IF AllTablesReadable
        THEN pc = "done" /\ written /\ mergedFile = ConcatTables(nFiles)
        ELSE /\ ~written
             /\ LET bad == CHOOSE k \in Indices :
                               /\ TableOf(k) = Null
                               /\ \A l \in Indices : TableOf(l) = Null => k <= l
                IN  \E d \in 1..Len(cerr) : cerr[d].file = bad

\* C6: over an empty range either merger ends normally with an empty
\* result: a written table of zero rows, an output of zero histograms.
C6_EmptyRange ==
    (nFiles = 0 /\ pc \in {"done", "crashed"}) =>
        /\ pc = "done"
        /\ macro = "mergetuple" => (written /\ mergedFile = <<>>)
        /\ macro = "mergemacro" => (outputClosed /\ outputFile = <<>>)

\* ---------------------------------------------------------------------
\* The three histogram kinds of the specification.
HistogramKinds == {"TH1F", "TH1D", "TH2D"}

\* The names of the histograms a source contains.
HistNamesOf(file) ==
    {file.keys[k].name : k \in {l \in 1..Len(file.keys) :
                                   file.keys[l].cls \in HistogramKinds /\ file.keys[l].ok}}

Has(fs, k, H) == Get(fs[k], H) # Null

\* The bin-wise sum of H over the sources among k..n-1 that contain it,
\* started from acc.
RECURSIVE SumFrom(_, _, _, _)
SumFrom(acc, fs, k, n) ==
    IF k >= n THEN acc
    ELSE LET h == Get(fs[k], acc.name)
         IN  SumFrom(IF h # Null THEN HistAdd(acc, h) ELSE acc, fs, k + 1, n)

\* The sum of H over all the sources that contain it.
SumOver(fs, n, H) ==
    LET first == CHOOSE k \in 0..(n - 1) :
                     Has(fs, k, H) /\ \A l \in 0..(n - 1) : Has(fs, l, H) => k <= l
    IN  SumFrom(Get(fs[first], H), fs, first + 1, n)

Written(H) == {o \in 1..Len(outputFile) : outputFile[o].name = H}
OutputSet == {outputFile[o] : o \in 1..Len(outputFile)}

\* C2: when source k, k = 0 included, lacks a histogram H that another
\* source has, the merged H in the output is the bin-wise sum (contents
\* and entries) over the sources that contain H, and a diagnostic naming
\* H and source k is recorded.  Stated over readable sources.
C2_MissingHistogram ==
    (macro = "mergemacro" /\ pc = "done" /\ AllReadable) =>
        \A k \in Indices : \A l \in Indices : \A H \in HistNamesOf(files[l]) :
            ~Has(files, k, H) =>
                /\ \E o \in Written(H) :
                       /\ outputFile[o].bins = SumOver(files, nFiles, H).bins
                       /\ outputFile[o].n = SumOver(files, nFiles, H).n
                /\ \E d \in 1..Len(cerr) : cerr[d] = Diag("notfound", H, k)

\* mergemacro as a function of its sources (lines 14-70): for each
\* loadable histogram key of source 0, the sum started from source 0's
\* histogram over the sources after it.
MergedOutput(fs, n) ==
    IF n = 0 \/ ~fs[0].ok THEN {}
    ELSE {SumFrom(Get(fs[0], fs[0].keys[k].name), fs, FirstOther, n) :
             k \in {l \in 1..Len(fs[0].keys) :
                       IsHistClass(fs[0].keys[l].cls) /\ fs[0].keys[l].ok}}

Permuted(p) == [k \in Indices |-> files[p[k]]]

\* C3: mergemacro over any permutation of the sources yields the same
\* merged histogram names with the same bin contents.
C3_OrderIndependent ==
    (macro = "mergemacro" /\ pc = "done" /\ AllReadable) =>
        /\ OutputSet = MergedOutput(files, nFiles)
        /\ \A p \in Permutations(Indices) :
               MergedOutput(Permuted(p), nFiles) = MergedOutput(files, nFiles)

\* C5: when one source, at any position, cannot be opened, a diagnostic is
\* logged, the merge completes, and each histogram of the readable sources
\* is written as the bin-wise sum over the readable sources.
C5_UnreadableSource ==
    (/\ macro = "mergemacro" /\ pc \in {"done", "crashed"}
     /\ \E k \in Indices : ~files[k].ok /\ \A l \in Indices \ {k} : files[l].ok) =>
        /\ pc = "done" /\ outputClosed
        /\ \A k \in Indices : ~files[k].ok =>
               \E d \in 1..Len(cerr) : cerr[d] = Diag("open", "", k)
        /\ \A l \in Indices : \A H \in HistNamesOf(files[l]) :
               \E o \in Written(H) :
                   /\ outputFile[o].bins = SumOver(files, nFiles, H).bins
                   /\ outputFile[o].n = SumOver(files, nFiles, H).n

\* C8 as stated: in both mergers at most one source file is open at every
\* point, each source being closed before the next is opened.
C8_AtMostOneOpen == Cardinality(openFiles) <= 1

\* C8 amended: mergetuple has at most one source open, the one it is
\* reading; mergemacro keeps source 0 open from discovery to the end and
\* has at most one other source open, the one it is adding, which is closed
\* before the next is opened also when the histogram is missing; a merger
\* that has completed has closed every source.
C8_SourceLifecycle ==
    /\ macro = "mergetuple" =>
          /\ openFiles \subseteq {i}
          /\ pc = "loop" => openFiles = {}
    /\ macro = "mergemacro" =>
          /\ openFiles \subseteq {0, i}
          /\ pc # "opened" => openFiles \subseteq {0}
          /\ pc \in {"keyloop", "fileloop", "opened"} /\ firstFile = "open" => 0 \in openFiles
    /\ pc = "done" => openFiles = {}

C8_Witness ==
    /\ macro = "mergemacro" /\ pc = "opened"
    /\ openFiles = {0, 2}
    /\ \E d \in 1..Len(cerr) : cerr[d].kind = "notfound" /\ cerr[d].file = 1

\* ---------------------------------------------------------------------
\* The names of source 0's entries of a histogram kind, loadable or not.
HistKeys0 ==
    IF FirstOpens
    THEN {files[0].keys[k].name :
             k \in {l \in 1..Len(files[0].keys) : files[0].keys[l].cls \in HistogramKinds}}
    ELSE {}
Loadable0 == IF FirstOpens THEN HistNamesOf(files[0]) ELSE {}
OutNames == {outputFile[o].name : o \in 1..Len(outputFile)}

\* C9 as stated: the merged output holds exactly one histogram, under its
\* original name, for each entry of source 0 of kind TH1F, TH1D or TH2D,
\* and nothing else.
C9_OutputIsHistKeys ==
    (macro = "mergemacro" /\ pc = "done") =>
        /\ OutNames = HistKeys0
        /\ \A H \in OutNames : Cardinality(Written(H)) = 1

\* C9 amended: the merged output holds exactly one histogram, under its
\* original name, for each entry of source 0 of kind TH1F, TH1D or TH2D
\* whose object can be loaded, and nothing else; an entry whose object
\* cannot be loaded is skipped with a diagnostic naming it; entries of
\* other kinds are never written, whatever the later sources hold.
C9_OutputIsLoadableHistKeys ==
    macro = "mergemacro" =>
        /\ OutNames \subseteq Loadable0
        /\ \A H \in OutNames : Cardinality(Written(H)) = 1
        /\ \A o \in 1..Len(outputFile) : outputFile[o].cls \in HistogramKinds
        /\ pc \in {"done", "crashed"} =>
              /\ OutNames = Loadable0
              /\ \A H \in HistKeys0 \ Loadable0 :
                     \E d \in 1..Len(cerr) : cerr[d] = Diag("load", H, 0)

C9_Witness ==
    /\ macro = "mergemacro" /\ pc = "done"
    /\ nFiles >= 2
    /\ \E k \in 1..Len(files[0].keys) : files[0].keys[k].cls = "TNtuple"
    /\ Cardinality(OutNames) = 2
    /\ \E H \in HistNamesOf(files[1]) : H \notin OutNames

\* ================================================== properties: drawTuple
\* t is v (in eighths) with its fraction dropped, towards zero.
IsTruncation(t, v) ==
    /\ (IF t >= 0 THEN t ELSE -t) * 8 <= (IF v >= 0 THEN v ELSE -v)
    /\ (IF v >= 0 THEN v ELSE -v) < ((IF t >= 0 THEN t ELSE -t) + 1) * 8
    /\ t > 0 => v > 0
    /\ t < 0 => v < 0

\* C7: for a merged table of n rows, dijet_data.csv is the header line and
\* then exactly n data lines, line k built from stored row k, each with ten
\* fields in schema order, the event index and the two parton identifiers
\* written as the stored value truncated toward zero.
C7_ExportRows ==
    (macro = "drawTuple" /\ written /\ pc \in {"lines", "done"}) =>
        /\ csvFile[1] = Header
        /\ Len(csvFile) = 1 + i
        /\ pc = "done" => i = Len(mergedFile)
        /\ \A k \in 1..i :
               LET line == csvFile[k + 1]
                   row == mergedFile[k]
               IN  /\ Len(line) = 10
                   /\ \A f \in {1, 9, 10} :
                          DOMAIN line[f] = {"int"} /\ IsTruncation(line[f].int, row[f])
                   /\ \A f \in 2..8 : line[f] = Fixed2(row[f])

C7_Witness ==
    /\ macro = "drawTuple" /\ pc = "done" /\ written
    /\ Len(mergedFile) = 3
    /\ mergedFile[1] = RowC /\ mergedFile[2] = RowA /\ mergedFile[3] = RowC
    /\ csvFile[2][1].int = 7 /\ csvFile[2][9].int = -1 /\ csvFile[2][10].int = 1
    /\ csvFile[3][9].int = 21 /\ csvFile[3][10].int = -1

\* ==================================================== properties: pythia
\* C10: each event appends at most one row, pairing the leading jet with
\* the first lower-pt jet, in descending pt order, that is back to back
\* with it; so the event indices of the rows are strictly increasing, and
\* the row count equals the fills of hDijetMass and of hPartonicX and is
\* at most the hnevent count.
C10_OneRowPerEvent ==
    macro = "pythia" =>
        /\ lastFill <= 1
        /\ \A r \in 1..Len(dijetNtuple) :
               LET row == dijetNtuple[r]
               IN  \E k \in 2..Len(row.jets) :
                       /\ BackToBack(row.jets[1], row.jets[k])
                       /\ row.subleadingJetPt = row.jets[k].pt
                       /\ \A m \in 2..(k - 1) : ~BackToBack(row.jets[1], row.jets[m])
        /\ \A a \in 1..Len(dijetNtuple) : \A b \in 1..Len(dijetNtuple) :
               a < b => dijetNtuple[a].eventNum < dijetNtuple[b].eventNum
        /\ Len(dijetNtuple) = hDijetMass
        /\ Len(dijetNtuple) = hPartonicX
        /\ Len(dijetNtuple) <= hnevent

====
